---- MODULE Spec2Model ----
(***************************************************************************)
(* minigrep (src/src/lib.rs): Config::new, run, search and                 *)
(* search_case_insensitive.                                                *)
(*                                                                         *)
(* A string is a sequence of characters; a character is a one-character    *)
(* TLA+ string.  Spec is one process invocation (Config::new, then run on  *)
(* the Config it returned); SearchSpec applies the two line filters to     *)
(* every bounded query and text body.                                      *)
(***************************************************************************)
EXTENDS Integers, Sequences, FiniteSets

VARIABLES
    args,          \* the argument strings handed to Config::new
    envVar,        \* the state of the environment variable CASE_INSENSITIVE
    file,          \* what the filesystem holds at FilePath
    pc,            \* position of the invocation
    configResult,  \* Result<Config, &'static str> of Config::new
    fileReads,     \* the paths given to fs::read_to_string so far, in order
    readResult,    \* io::Result<String> of the read in run
    results,       \* the Vec<&str> run got from the filter
    stdout,        \* the lines println! wrote so far, in order
    runResult,     \* Result<(), Box<dyn Error>> of run
    query,         \* SearchSpec: the query passed to the filter
    contents,      \* SearchSpec: the text body passed to the filter
    called,        \* SearchSpec: which filter was called
    out            \* SearchSpec: the Vec<&str> the filter returned

vars == <<args, envVar, file, pc, configResult, fileReads, readResult,
          results, stdout, runResult, query, contents, called, out>>

progVars == <<args, envVar, file, pc, configResult, fileReads, readResult,
              results, stdout, runResult>>

harnessVars == <<query, contents, called, out>>

----------------------------------------------------------------------------
(* Bounds *)

MaxArgs == 4
MaxFileLen == 3
MaxQueryLen == 2
MaxContentsLen == 4

SeqsUpTo(S, n) == UNION {[1..k -> S] : k \in 0..n}

\* argument strings: empty, lower case, upper case
ArgStrings == {<<>>, <<"a">>, <<"A">>}
\* values of a set, valid-Unicode environment variable
EnvValues == {<<>>, <<"a">>}
\* characters of file bodies in Spec
FileChars == {"a", "A", "\n"}
\* characters of queries and text bodies in SearchSpec
QueryChars == {"a", "A", "\n"}
ContentsChars == {"a", "A", "\n", "\r"}
\* the one path of the filesystem that may hold a file
FilePath == <<"a">>

----------------------------------------------------------------------------
(* Library functions the code calls *)

\* Iterator::next on the argument iterator
next(it) ==
    IF it = <<>> THEN [item |-> <<>>, rest |-> <<>>]
    ELSE [item |-> <<Head(it)>>, rest |-> Tail(it)]

\* env::var(name): Ok(value) when set to valid Unicode, Err(NotPresent) when
\* unset, Err(NotUnicode) when set to a value that is not valid Unicode
env_var(e) ==
    CASE e.kind = "unset"      -> [ok |-> FALSE, err |-> "NotPresent", value |-> <<>>]
      [] e.kind = "nonunicode" -> [ok |-> FALSE, err |-> "NotUnicode", value |-> <<>>]
      [] e.kind = "unicode"    -> [ok |-> TRUE, err |-> "", value |-> e.value]

\* fs::read_to_string(path)
read_to_string(path, f) ==
    IF path # FilePath \/ f.kind = "absent"
      THEN [kind |-> "err", err |-> "NotFound", text |-> <<>>]
    ELSE IF f.kind = "denied"
      THEN [kind |-> "err", err |-> "PermissionDenied", text |-> <<>>]
    ELSE IF f.kind = "invalid"
      THEN [kind |-> "err", err |-> "InvalidData", text |-> <<>>]
    ELSE [kind |-> "ok", err |-> "", text |-> f.text]

\* index of the first "\n" of s, 0 when there is none
RECURSIVE find_newline(_, _)
find_newline(s, i) ==
    IF i > Len(s) THEN 0
    ELSE IF s[i] = "\n" THEN i
    ELSE find_newline(s, i + 1)

\* str::split_inclusive('\n'): pieces end with their "\n"; no empty last piece
RECURSIVE split_inclusive(_)
split_inclusive(s) ==
    IF s = <<>> THEN <<>>
    ELSE LET i == find_newline(s, 1) IN
         IF i = 0 THEN <<s>>
         ELSE <<SubSeq(s, 1, i)>> \o split_inclusive(SubSeq(s, i + 1, Len(s)))

strip_suffix(s, c) ==
    IF s # <<>> /\ s[Len(s)] = c
      THEN [some |-> TRUE, str |-> SubSeq(s, 1, Len(s) - 1)]
      ELSE [some |-> FALSE, str |-> s]

\* one line of str::lines(): drop a final "\n", then a "\r" before it
strip_line_ending(piece) ==
    LET a == strip_suffix(piece, "\n") IN
    IF ~a.some THEN piece
    ELSE strip_suffix(a.str, "\r").str

\* str::lines()
lines(s) ==
    LET pieces == split_inclusive(s) IN
    [i \in 1..Len(pieces) |-> strip_line_ending(pieces[i])]

\* contains that treats the empty needle as absent
RECURSIVE contains_nonempty(_, _)
contains_nonempty(haystack, needle) ==
    IF needle = <<>> \/ Len(needle) > Len(haystack) THEN FALSE
    ELSE IF SubSeq(haystack, 1, Len(needle)) = needle THEN TRUE
    ELSE contains_nonempty(Tail(haystack), needle)

\* str::contains(needle): scan the haystack from the left
RECURSIVE contains(_, _)
contains(haystack, needle) ==
    IF Len(needle) > Len(haystack) THEN FALSE
    ELSE IF SubSeq(haystack, 1, Len(needle)) = needle THEN TRUE
    ELSE contains(Tail(haystack), needle)

\* char::to_lowercase
char_to_lowercase(c) == IF c = "A" THEN "a" ELSE c

\* str::to_lowercase
to_lowercase(s) == [i \in 1..Len(s) |-> char_to_lowercase(s[i])]

----------------------------------------------------------------------------
(* src/src/lib.rs *)

\* lib.rs:53-57
RECURSIVE search_filter(_, _)
search_filter(ls, q) ==
    IF ls = <<>> THEN <<>>
    ELSE (IF contains(Head(ls), q) THEN <<Head(ls)>> ELSE <<>>)
         \o search_filter(Tail(ls), q)

\* search that stops filtering after the first match
search_first_match(q, c) ==
    LET r == search_filter(lines(c), q) IN
    IF r = <<>> THEN <<>> ELSE <<Head(r)>>

search(q, c) == search_filter(lines(c), q)

\* lib.rs:59-65
RECURSIVE search_case_insensitive_filter(_, _)
search_case_insensitive_filter(ls, q) ==
    IF ls = <<>> THEN <<>>
    ELSE (IF contains(to_lowercase(Head(ls)), q) THEN <<Head(ls)>> ELSE <<>>)
         \o search_case_insensitive_filter(Tail(ls), q)

\* search_case_insensitive that folds the lines but not the query
search_case_insensitive_raw_query(q, c) ==
    search_case_insensitive_filter(lines(c), q)

search_case_insensitive(q, c) ==
    LET lq == to_lowercase(q) IN
    search_case_insensitive_filter(lines(c), lq)

NoConfig == [kind |-> "none", err |-> "", config |-> <<>>]
NoRead == [kind |-> "none", err |-> "", text |-> <<>>]
NoRun == [kind |-> "none", err |-> ""]

\* Config::new that does not skip the program name
Config_new_no_skip(a, e) ==
    LET n1 == next(a)
        n2 == next(n1.rest)
        case_sensitive == ~env_var(e).ok
    IN  IF n1.item = <<>>
          THEN [kind |-> "err", err |-> "missing query", config |-> <<>>]
        ELSE IF n2.item = <<>>
          THEN [kind |-> "err", err |-> "missing filename", config |-> <<>>]
        ELSE [kind |-> "ok", err |-> "",
              config |-> <<[query |-> n1.item[1],
                            filename |-> n2.item[1],
                            case_sensitive |-> case_sensitive]>>]

\* Config::new that stores the two arguments in each other's field
Config_new_swapped(a, e) ==
    LET n0 == next(a)
        n1 == next(n0.rest)
        n2 == next(n1.rest)
        case_sensitive == ~env_var(e).ok
    IN  IF n1.item = <<>>
          THEN [kind |-> "err", err |-> "missing query", config |-> <<>>]
        ELSE IF n2.item = <<>>
          THEN [kind |-> "err", err |-> "missing filename", config |-> <<>>]
        ELSE [kind |-> "ok", err |-> "",
              config |-> <<[query |-> n2.item[1],
                            filename |-> n1.item[1],
                            case_sensitive |-> case_sensitive]>>]

\* Config::new that rejects surplus arguments
Config_new_strict(a, e) ==
    LET n0 == next(a)
        n1 == next(n0.rest)
        n2 == next(n1.rest)
        n3 == next(n2.rest)
        case_sensitive == ~env_var(e).ok
    IN  IF n1.item = <<>>
          THEN [kind |-> "err", err |-> "missing query", config |-> <<>>]
        ELSE IF n2.item = <<>>
          THEN [kind |-> "err", err |-> "missing filename", config |-> <<>>]
        ELSE IF n3.item # <<>>
          THEN [kind |-> "err", err |-> "too many arguments", config |-> <<>>]
        ELSE [kind |-> "ok", err |-> "",
              config |-> <<[query |-> n1.item[1],
                            filename |-> n2.item[1],
                            case_sensitive |-> case_sensitive]>>]

\* lib.rs:13-34
Config_new(a, e) ==
    LET n0 == next(a)
        n1 == next(n0.rest)
        n2 == next(n1.rest)
        case_sensitive == ~env_var(e).ok
    IN  IF n1.item = <<>>
          THEN [kind |-> "err", err |-> "missing query", config |-> <<>>]
        ELSE IF n2.item = <<>>
          THEN [kind |-> "err", err |-> "missing filename", config |-> <<>>]
        ELSE [kind |-> "ok", err |-> "",
              config |-> <<[query |-> n1.item[1],
                            filename |-> n2.item[1],
                            case_sensitive |-> case_sensitive]>>]

\* the dispatch of run with its branches exchanged
run_results_swapped(config, text) ==
    IF config.case_sensitive
      THEN search_case_insensitive(config.query, text)
      ELSE search(config.query, text)

\* lib.rs:40-44
run_results(config, text) ==
    IF config.case_sensitive
      THEN search(config.query, text)
      ELSE search_case_insensitive(config.query, text)

ArgLists == SeqsUpTo(ArgStrings, MaxArgs)

EnvStates ==
    {[kind |-> "unset", value |-> <<>>], [kind |-> "nonunicode", value |-> <<>>]}
    \cup {[kind |-> "unicode", value |-> v] : v \in EnvValues}

FileStates ==
    {[kind |-> k, text |-> <<>>] : k \in {"absent", "denied", "invalid"}}
    \cup {[kind |-> "text", text |-> t] : t \in SeqsUpTo(FileChars, MaxFileLen)}

HarnessIdle ==
    /\ query = <<>>
    /\ contents = <<>>
    /\ called = "none"
    /\ out = <<>>

ProgramIdle ==
    /\ args = <<>>
    /\ envVar = [kind |-> "unset", value |-> <<>>]
    /\ file = [kind |-> "absent", text |-> <<>>]
    /\ pc = "start"
    /\ configResult = NoConfig
    /\ fileReads = <<>>
    /\ readResult = NoRead
    /\ results = <<>>
    /\ stdout = <<>>
    /\ runResult = NoRun

Init ==
    /\ args \in ArgLists
    /\ envVar \in EnvStates
    /\ file \in FileStates
    /\ pc = "start"
    /\ configResult = NoConfig
    /\ fileReads = <<>>
    /\ readResult = NoRead
    /\ results = <<>>
    /\ stdout = <<>>
    /\ runResult = NoRun
    /\ HarnessIdle

\* Config::new that also opens the file it was given
ConfigNew_opens_file ==
    /\ pc = "start"
    /\ configResult' = Config_new(args, envVar)
    /\ pc' = IF configResult'.kind = "ok" THEN "configured" ELSE "config_err"
    /\ fileReads' = IF configResult'.kind = "ok"
                      THEN Append(fileReads, configResult'.config[1].filename)
                      ELSE fileReads
    /\ UNCHANGED <<args, envVar, file, readResult, results, stdout, runResult>>
    /\ UNCHANGED harnessVars

\* Config::new(args), lib.rs:13-34
ConfigNew ==
    /\ pc = "start"
    /\ configResult' = Config_new(args, envVar)
    /\ pc' = IF configResult'.kind = "ok" THEN "configured" ELSE "config_err"
    /\ UNCHANGED <<args, envVar, file, fileReads, readResult, results, stdout,
                   runResult>>
    /\ UNCHANGED harnessVars

\* run that takes a failed read for an empty file
RunReadErr_as_empty ==
    /\ pc = "configured"
    /\ LET config == configResult.config[1]
           r == read_to_string(config.filename, file)
       IN  /\ r.kind = "err"
           /\ fileReads' = Append(fileReads, config.filename)
           /\ readResult' = r
           /\ results' = run_results(config, <<>>)
           /\ pc' = "printing"
    /\ UNCHANGED <<args, envVar, file, configResult, stdout, runResult>>
    /\ UNCHANGED harnessVars

\* run(config), lib.rs:38 failing: the ? returns the error
RunReadErr ==
    /\ pc = "configured"
    /\ LET config == configResult.config[1]
           r == read_to_string(config.filename, file)
       IN  /\ r.kind = "err"
           /\ fileReads' = Append(fileReads, config.filename)
           /\ readResult' = r
           /\ runResult' = [kind |-> "err", err |-> r.err]
           /\ pc' = "run_err"
    /\ UNCHANGED <<args, envVar, file, configResult, results, stdout>>
    /\ UNCHANGED harnessVars

\* run(config), lib.rs:38-44: the read succeeds and the filter is applied
RunReadOk ==
    /\ pc = "configured"
    /\ LET config == configResult.config[1]
           r == read_to_string(config.filename, file)
       IN  /\ r.kind = "ok"
           /\ fileReads' = Append(fileReads, config.filename)
           /\ readResult' = r
           /\ results' = run_results(config, r.text)
           /\ pc' = "printing"
    /\ UNCHANGED <<args, envVar, file, configResult, stdout, runResult>>
    /\ UNCHANGED harnessVars

\* run(config), lib.rs:46-48: one iteration of the loop
RunPrintln ==
    /\ pc = "printing"
    /\ Len(stdout) < Len(results)
    /\ stdout' = Append(stdout, results[Len(stdout) + 1])
    /\ UNCHANGED <<args, envVar, file, pc, configResult, fileReads, readResult,
                   results, runResult>>
    /\ UNCHANGED harnessVars

\* run(config), lib.rs:50
RunReturn ==
    /\ pc = "printing"
    /\ Len(stdout) = Len(results)
    /\ runResult' = [kind |-> "ok", err |-> ""]
    /\ pc' = "done"
    /\ UNCHANGED <<args, envVar, file, configResult, fileReads, readResult,
                   results, stdout>>
    /\ UNCHANGED harnessVars

Next ==
    \/ ConfigNew
    \/ RunReadErr
    \/ RunReadOk
    \/ RunPrintln
    \/ RunReturn

Spec == Init /\ [][Next]_vars

----------------------------------------------------------------------------
(* The line filters applied to every bounded query and text body *)

SearchInit ==
    /\ ProgramIdle
    /\ query \in SeqsUpTo(QueryChars, MaxQueryLen)
    /\ contents \in SeqsUpTo(ContentsChars, MaxContentsLen)
    /\ called = "none"
    /\ out = <<>>

CallSearch ==
    /\ called = "none"
    /\ called' = "search"
    /\ out' = search(query, contents)
    /\ UNCHANGED <<query, contents>>
    /\ UNCHANGED progVars

CallSearchCaseInsensitive ==
    /\ called = "none"
    /\ called' = "search_case_insensitive"
    /\ out' = search_case_insensitive(query, contents)
    /\ UNCHANGED <<query, contents>>
    /\ UNCHANGED progVars

SearchNext ==
    \/ CallSearch
    \/ CallSearchCaseInsensitive

SearchSpec == SearchInit /\ [][SearchNext]_vars

----------------------------------------------------------------------------
(* Properties *)

\* q occurs in l as a contiguous substring
OccursIn(q, l) ==
    \E i \in 0..(Len(l) - Len(q)) : \A k \in 1..Len(q) : l[i + k] = q[k]

\* the i-th smallest element of the set M of indices
Nth(M, i) == CHOOSE j \in M : Cardinality({m \in M : m < j}) = i - 1

\* res is the elements of ls at the indices M, in increasing order of index
IsSelection(res, ls, M) ==
    /\ Len(res) = Cardinality(M)
    /\ \A i \in 1..Len(res) : res[i] = ls[Nth(M, i)]

\* the number of newline-delimited lines of the text t
LineCount(t) ==
    Cardinality({i \in 1..Len(t) : t[i] = "\n"})
    + (IF t # <<>> /\ t[Len(t)] # "\n" THEN 1 ELSE 0)

TheConfig == configResult.config[1]

\* C1: search(Q, T) returns exactly the lines of T that contain Q as a
\* contiguous substring, in the order of T: every returned line contains Q,
\* every line containing Q is returned, the result is an order-preserving
\* subsequence of the lines, and a query no line contains yields the empty
\* result.
C1_SearchSoundComplete ==
    called = "search" =>
        LET ls == lines(contents)
            M == {j \in 1..Len(ls) : OccursIn(query, ls[j])}
        IN  /\ \A i \in 1..Len(out) : OccursIn(query, out[i])
            /\ IsSelection(out, ls, M)
            /\ (M = {} => out = <<>>)

C1_Witness ==
    /\ called = "search"
    /\ query # <<>>
    /\ out # <<>>
    /\ Len(out) < Len(lines(contents))

\* C2: search_case_insensitive(Q, T) returns a line L of T if and only if
\* lower(L) contains lower(Q), in source order, and each returned line is the
\* original text of L, not its lower-cased copy.
C2_CaseInsensitiveSoundComplete ==
    called = "search_case_insensitive" =>
        LET ls == lines(contents)
            M == {j \in 1..Len(ls) :
                    OccursIn(to_lowercase(query), to_lowercase(ls[j]))}
        IN  /\ \A i \in 1..Len(out) :
                    OccursIn(to_lowercase(query), to_lowercase(out[i]))
            /\ IsSelection(out, ls, M)

C2_Witness ==
    /\ called = "search_case_insensitive"
    /\ query # to_lowercase(query)
    /\ Len(out) < Len(lines(contents))
    /\ \E i \in 1..Len(out) : out[i] # to_lowercase(out[i])

\* C3: Config::new fails with 'missing query' exactly when no argument remains
\* after the program name and with 'missing filename' exactly when only the
\* query remains; with both absent the error is 'missing query'; an error
\* carries no Config.
C3_ConfigErrors ==
    pc # "start" =>
        /\ (Len(args) <= 1 =>
              configResult = [kind |-> "err", err |-> "missing query",
                              config |-> <<>>])
        /\ (Len(args) = 2 =>
              configResult = [kind |-> "err", err |-> "missing filename",
                              config |-> <<>>])
        /\ (configResult.kind = "err" =>
              /\ Len(args) <= 2
              /\ configResult.config = <<>>
              /\ configResult.err \in {"missing query", "missing filename"})

C3_Witness ==
    /\ Len(args) = 1
    /\ configResult.kind = "err"
    /\ configResult.err = "missing query"

\* C4: for a non-empty query and filename, Config::new of
\* [progname, query, filename] succeeds with query the second and filename
\* the third element.
C4_ConfigValid ==
    (pc # "start" /\ Len(args) = 3 /\ args[2] # <<>> /\ args[3] # <<>>) =>
        /\ configResult.kind = "ok"
        /\ Len(configResult.config) = 1
        /\ TheConfig.query = args[2]
        /\ TheConfig.filename = args[3]

C4_Witness ==
    /\ pc # "start"
    /\ Len(args) = 3
    /\ args[2] # <<>> /\ args[3] # <<>>
    /\ args[1] # args[2] /\ args[2] # args[3]
    /\ configResult.kind = "ok"

\* C5: in every Config that Config::new returns, case_sensitive is true if and
\* only if the environment variable CASE_INSENSITIVE is unset; set to any
\* value it makes case_sensitive false.
C5_CaseSensitiveIffUnset ==
    configResult.kind = "ok" =>
        (TheConfig.case_sensitive <=> envVar.kind = "unset")

\* C6: when the file cannot be read or is not valid text, run returns one
\* error carrying the I/O failure, after one read and with nothing written to
\* standard output; run returns success only after the read succeeded and
\* every line of the result was written.
C6_ReadFailureIsTerminal ==
    /\ (pc \in {"run_err", "printing", "done"} =>
          LET missing == TheConfig.filename # FilePath \/ file.kind = "absent"
              failure == IF missing THEN "NotFound"
                         ELSE IF file.kind = "denied" THEN "PermissionDenied"
                         ELSE "InvalidData"
          IN  (missing \/ file.kind # "text") =>
                 /\ pc = "run_err"
                 /\ runResult = [kind |-> "err", err |-> failure]
                 /\ Len(fileReads) = 1
                 /\ results = <<>>
                 /\ stdout = <<>>)
    /\ (runResult.kind = "err" => readResult.kind = "err")
    /\ (runResult.kind = "ok" =>
          /\ readResult.kind = "ok"
          /\ TheConfig.filename = FilePath /\ file.kind = "text"
          /\ stdout = results)

C6_Witness ==
    /\ runResult.kind = "err"
    /\ TheConfig.filename = FilePath
    /\ file.kind = "invalid"

\* C7: after a successful read, run has read the file exactly once and
\* standard output holds, line for line and in order, a prefix of
\* search(query, contents) when case_sensitive is true and of
\* search_case_insensitive(query, contents) when it is false; when run has
\* returned, standard output is that whole result, which may be empty.
C7_OutputIsFilterResult ==
    /\ Len(fileReads) <= 1
    /\ (stdout # <<>> => pc \in {"printing", "done"})
    /\ (pc \in {"printing", "done"} =>
          LET expected == IF TheConfig.case_sensitive
                            THEN search(TheConfig.query, file.text)
                            ELSE search_case_insensitive(TheConfig.query,
                                                         file.text)
          IN  /\ fileReads = <<TheConfig.filename>>
              /\ Len(stdout) <= Len(expected)
              /\ stdout = SubSeq(expected, 1, Len(stdout))
              /\ (pc = "done" =>
                    /\ stdout = expected
                    /\ runResult = [kind |-> "ok", err |-> ""]))

C7_Witness ==
    /\ pc = "done"
    /\ ~TheConfig.case_sensitive
    /\ Len(stdout) >= 2
    /\ stdout # search(TheConfig.query, file.text)

\* C8: with the empty query both filters return every line of the text,
\* unchanged and in order: as many entries as the text has newline-delimited
\* lines, the i-th entry being the i-th line.
C8_EmptyQueryReturnsAllLines ==
    (called # "none" /\ query = <<>>) =>
        /\ Len(out) = LineCount(contents)
        /\ \A i \in 1..Len(out) : out[i] = lines(contents)[i]

C8_Witness ==
    /\ called = "search_case_insensitive"
    /\ query = <<>>
    /\ Len(out) >= 2
    /\ \E i \in 1..Len(out) : out[i] # to_lowercase(out[i])

\* C9: Config::new reads no file in any of its outcomes, a Config error is
\* never followed by a file access, the only file ever read is the Config's
\* filename, read by run, and Config::new succeeds for a filename that names
\* no existing file.
C9_ConfigNeverTouchesFiles ==
    /\ (pc \in {"start", "configured", "config_err"} =>
          fileReads = <<>> /\ readResult = NoRead)
    /\ (configResult.kind = "err" => pc = "config_err")
    /\ (fileReads # <<>> =>
          configResult.kind = "ok" /\ fileReads = <<TheConfig.filename>>)
    /\ ((pc # "start" /\ Len(args) >= 3
            /\ (args[3] # FilePath \/ file.kind = "absent")) =>
          configResult.kind = "ok")

C9_Witness ==
    /\ pc = "configured"
    /\ TheConfig.filename # FilePath \/ file.kind = "absent"
    /\ fileReads = <<>>

\* C10: for every argument sequence of three or more elements Config::new
\* succeeds with query the second and filename the third element, whatever
\* follows them.
C10_SurplusArgumentsIgnored ==
    (pc # "start" /\ Len(args) >= 3) =>
        /\ configResult.kind = "ok"
        /\ TheConfig.query = args[2]
        /\ TheConfig.filename = args[3]

C10_Witness ==
    /\ pc # "start"
    /\ Len(args) >= 4
    /\ args[4] # args[2] /\ args[4] # args[3]
    /\ configResult.kind = "ok"

====
